---------------------------- MODULE Spec2Model ----------------------------
(***************************************************************************)
(* A model of build.ts, the harvest pipeline of the potato store: the      *)
(* registry (harvest-index.json), the in-memory tag map, the per-manifest  *)
(* decision sequence and the generation of the tag index documents.        *)
(*                                                                         *)
(* Encoding of JavaScript values:                                          *)
(*   - a string property that is missing and one that is "" are both       *)
(*     falsy and both written as "" here;                                  *)
(*   - an array is a sequence; a missing array property is Undefined;      *)
(*   - a Set<string> is a duplicate-free sequence in insertion order;      *)
(*   - a Map<string, V> is a function whose DOMAIN is the set of keys.     *)
(***************************************************************************)
EXTENDS Integers, Sequences, FiniteSets, TLC

\* ------------------------------------------------------------ bounds ----
\* Manifests (potato.yaml files) handled in one run, over all repos.
MaxManifests == 3
\* Entries of sources.json handled in one run.
MaxRepos == 2
\* Runs of the pipeline in the specification that runs it again.
MaxRuns == 2

\* ------------------------------------------------------------ values ----
Slugs == {"calc", "notes"}
Versions == {"1.0.0", "2.0.0"}
Tags == {"math", "official"}
\* A missing array property (potato.tags, potato.versions, potatoYaml.tags).
Undefined == <<"<undefined>">>

\* The descriptive string properties.  A missing one and an empty one are
\* both falsy and both "" here.
NoTexts ==
    [name |-> "", info |-> "", author_name |-> "", author_email |-> "",
     author_site |-> "", license |-> ""]

\* The texts of an entry stored by an earlier run.
OldTexts ==
    [name |-> "Calc", info |-> "Adds", author_name |-> "Ada",
     author_email |-> "ada@old.example", author_site |-> "old.example",
     license |-> "MIT"]

\* The texts of a manifest of this run.
NewTexts ==
    [name |-> "Calculator", info |-> "Adds and subtracts",
     author_name |-> "Grace", author_email |-> "grace@new.example",
     author_site |-> "new.example", license |-> "GPL"]

\* The names of the descriptive string properties.
StringFields ==
    {"name", "info", "author_name", "author_email", "author_site", "license"}

\* The texts x with only the properties in S there.
TextsOnly(x, S) == [f \in StringFields |-> IF f \in S THEN x[f] ELSE ""]

\* A parsed potato.yaml with the texts x.
Manifest(s, v, t, x) ==
    [slug |-> s, version |-> v, tags |-> t,
     name |-> x.name, info |-> x.info, author_name |-> x.author_name,
     author_email |-> x.author_email, author_site |-> x.author_site,
     license |-> x.license]

\* The manifests of a slug and a version the pipeline draws from: tags may
\* be missing, the texts are all there or all missing.
ManifestsOf(s, v) ==
    {Manifest(s, v, t, x) :
        t \in {Undefined, <<"math">>, <<"official", "math">>},
        x \in {NoTexts, NewTexts}}

\* The manifests the pipeline draws from; slug, version or both may be
\* missing ("").
Manifests ==
    UNION {ManifestsOf(s, v) : s \in Slugs, v \in Versions}
    \cup ManifestsOf("", "1.0.0") \cup ManifestsOf("calc", "")
    \cup ManifestsOf("", "")

\* The value of potatoYaml when the file did not parse.
NoManifest == Manifest("", "", Undefined, NoTexts)

\* ------------------------------------------------- arrays, sets, maps ----
Range(arr) == {arr[i] : i \in 1..Len(arr)}

\* The mutant of Includes written as indexOf(x) > 0: the first element is
\* not looked at.
IncludesAfterFirst(arr, x) == \E i \in 2..Len(arr) : arr[i] = x

\* Array.prototype.includes
Includes(arr, x) == \E i \in 1..Len(arr) : arr[i] = x

\* Set.prototype.add on an insertion-ordered set.
SetAdd(set, x) == IF x \in Range(set) THEN set ELSE Append(set, x)

\* potatoYaml.tags || [] and potato.tags || []
OrEmptyArray(arr) == IF arr = Undefined THEN <<>> ELSE arr

\* Array.prototype.sort() on tag names: Tags in code-unit order.
TagOrder == <<"math", "official">>

SortTags(S) == SelectSeq(TagOrder, LAMBDA t : t \in S)

\* One pass of "if (!tagIndex.has(tag)) tagIndex.set(tag, new Set());
\* tagIndex.get(tag).add(slug)".
TagIndexAdd(ti, tag, slug) ==
    [t \in DOMAIN ti \cup {tag} |->
        IF t = tag
        THEN SetAdd(IF tag \in DOMAIN ti THEN ti[tag] ELSE <<>>, slug)
        ELSE ti[t]]

\* The loop "for (const tag of tags) ..." over an array of tags.
RECURSIVE TagIndexAddAll(_, _, _)
TagIndexAddAll(ti, tags, slug) ==
    IF tags = <<>> THEN ti
    ELSE TagIndexAddAll(TagIndexAdd(ti, Head(tags), slug), Tail(tags), slug)

\* The mutant of TagIndexFromPotatoes without the loop over the loaded
\* potatoes.
TagIndexIgnoringPotatoes(ti, potatoes) == ti

\* The tag map built from the potatoes of the loaded harvest index.
RECURSIVE TagIndexFromPotatoes(_, _)
TagIndexFromPotatoes(ti, potatoes) ==
    IF potatoes = <<>> THEN ti
    ELSE TagIndexFromPotatoes(
             TagIndexAddAll(ti, OrEmptyArray(Head(potatoes).tags),
                            Head(potatoes).slug),
             Tail(potatoes))

EmptyMap == [t \in {} |-> <<>>]

\* ---------------------------------------------------------- registry ----
\* The harvest index created when harvest-index.json does not exist.  The
\* properties name, info, type, zip_template and indexed_tag_template are
\* loaded and saved unchanged and are left out.
DefaultHarvestIndex == [indexed_tags |-> <<"official">>, potatoes |-> <<>>]

\* The mutant of FindPotatoEntry that compares the name with the slug.
FindPotatoEntryByName(hi, slug) ==
    IF \E i \in 1..Len(hi.potatoes) : hi.potatoes[i].name = slug
    THEN CHOOSE i \in 1..Len(hi.potatoes) :
             /\ hi.potatoes[i].name = slug
             /\ \A j \in 1..(i - 1) : hi.potatoes[j].name # slug
    ELSE 0

\* The index of the first potato with this slug, 0 for undefined.
FindPotatoEntry(hi, slug) ==
    IF \E i \in 1..Len(hi.potatoes) : hi.potatoes[i].slug = slug
    THEN CHOOSE i \in 1..Len(hi.potatoes) :
             /\ hi.potatoes[i].slug = slug
             /\ \A j \in 1..(i - 1) : hi.potatoes[j].slug # slug
    ELSE 0

\* The mutant of VersionExists that looks at current_version only.
VersionExistsCurrentOnly(hi, i, version) ==
    /\ i # 0
    /\ hi.potatoes[i].current_version = version

\* potato && potato.versions && potato.versions.includes(version), for the
\* potato at index i (0: undefined).
VersionExists(hi, i, version) ==
    /\ i # 0
    /\ hi.potatoes[i].versions # Undefined
    /\ Includes(hi.potatoes[i].versions, version)

\* The entry created for a slug seen for the first time.
NewPotato(slug, version, potatoYaml) ==
    [name |-> potatoYaml.name,
     info |-> potatoYaml.info,
     slug |-> slug,
     tags |-> OrEmptyArray(potatoYaml.tags),
     author_name |-> potatoYaml.author_name,
     author_email |-> potatoYaml.author_email,
     author_site |-> potatoYaml.author_site,
     license |-> potatoYaml.license,
     current_version |-> version,
     versions |-> <<version>>]

\* The mutant of FillString without the test of potato.f.
FillStringAlways(old, new) == IF new # "" THEN new ELSE old

\* "if (!potato.f && potatoYaml.f) potato.f = potatoYaml.f" for a string.
FillString(old, new) == IF old = "" /\ new # "" THEN new ELSE old

\* The same statement for tags: an array, even an empty one, is truthy, so
\* only a missing potato.tags is replaced, by any array the manifest has.
FillTags(old, new) == IF old = Undefined /\ new # Undefined THEN new ELSE old

\* The mutant of PushVersion without the includes test.
PushVersionAlways(versions, version) ==
    LET vs == IF versions = Undefined THEN <<>> ELSE versions
    IN  Append(vs, version)

\* The mutant of PushVersion that puts the version first (unshift).
PushVersionFirst(versions, version) ==
    LET vs == IF versions = Undefined THEN <<>> ELSE versions
    IN  IF Includes(vs, version) THEN vs ELSE <<version>> \o vs

\* The mutant of PushVersion that leaves the versions as they are.
PushVersionNever(versions, version) ==
    IF versions = Undefined THEN <<>> ELSE versions

\* The versions of an entry after "if (!potato.versions) potato.versions = [];
\* if (!potato.versions.includes(version)) potato.versions.push(version)".
PushVersion(versions, version) ==
    LET vs == IF versions = Undefined THEN <<>> ELSE versions
    IN  IF Includes(vs, version) THEN vs ELSE Append(vs, version)

\* The mutant of UpdatedPotato without "potato.current_version = version".
UpdatedPotatoKeepsCurrent(potato, version, potatoYaml) ==
    [name |-> FillString(potato.name, potatoYaml.name),
     info |-> FillString(potato.info, potatoYaml.info),
     slug |-> potato.slug,
     tags |-> FillTags(potato.tags, potatoYaml.tags),
     author_name |-> FillString(potato.author_name, potatoYaml.author_name),
     author_email |-> FillString(potato.author_email, potatoYaml.author_email),
     author_site |-> FillString(potato.author_site, potatoYaml.author_site),
     license |-> FillString(potato.license, potatoYaml.license),
     current_version |-> potato.current_version,
     versions |-> PushVersion(potato.versions, version)]

\* The update of an existing entry.
UpdatedPotato(potato, version, potatoYaml) ==
    [name |-> FillString(potato.name, potatoYaml.name),
     info |-> FillString(potato.info, potatoYaml.info),
     slug |-> potato.slug,
     tags |-> FillTags(potato.tags, potatoYaml.tags),
     author_name |-> FillString(potato.author_name, potatoYaml.author_name),
     author_email |-> FillString(potato.author_email, potatoYaml.author_email),
     author_site |-> FillString(potato.author_site, potatoYaml.author_site),
     license |-> FillString(potato.license, potatoYaml.license),
     current_version |-> version,
     versions |-> PushVersion(potato.versions, version)]

\* updateHarvestIndex(slug, version, potatoYaml): the harvest index after it.
UpdateHarvestIndex(hi, slug, version, potatoYaml) ==
    LET i == FindPotatoEntry(hi, slug)
    IN  IF i = 0
        THEN [hi EXCEPT !.potatoes =
                 Append(@, NewPotato(slug, version, potatoYaml))]
        ELSE [hi EXCEPT !.potatoes[i] =
                 UpdatedPotato(@, version, potatoYaml)]

\* ------------------------------------------------------ loaded state ----
\* A stored entry with the texts x.
Potato(s, vs, c, t, x) ==
    [name |-> x.name, info |-> x.info, slug |-> s, tags |-> t,
     author_name |-> x.author_name, author_email |-> x.author_email,
     author_site |-> x.author_site, license |-> x.license,
     current_version |-> c, versions |-> vs]

\* <<versions, current_version>> of a stored entry: no version twice, the
\* current version one of them, the last pushed or (edited by hand) not.
LoadedVersions ==
    { <<(<<"1.0.0">>), "1.0.0">>,
      <<(<<"2.0.0", "1.0.0">>), "1.0.0">>,
      <<(<<"2.0.0", "1.0.0">>), "2.0.0">> }

\* The entries of a harvest-index.json written by earlier runs or by hand:
\* tags may be missing.
LoadedPotatoes(s) ==
    {Potato(s, vc[1], vc[2], t, x) :
        vc \in LoadedVersions, t \in {Undefined, <<>>, <<"math">>},
        x \in {NoTexts, OldTexts}}

\* The contents of harvest-index.json at the start: no file (<<>>), or one
\* document with at most one entry per slug.
LoadedFiles ==
    {<<>>}
    \cup {<<[indexed_tags |-> <<"official">>, potatoes |-> <<p>>]>> :
             p \in LoadedPotatoes("calc")}
    \cup {<<[indexed_tags |-> <<"math">>, potatoes |-> <<p, q>>]>> :
             p \in {x \in LoadedPotatoes("notes") :
                       x.tags = <<"math">> /\ Len(x.versions) = 1},
             q \in {x \in LoadedPotatoes("calc") :
                       x.name = "" /\ Len(x.versions) = 1}}

\* existsSync(HARVEST_INDEX_PATH) ? JSON.parse(readFileSync(...)) : default
LoadHarvestIndex(f) == IF f = <<>> THEN DefaultHarvestIndex ELSE f[1]

\* ------------------------------------------------- artifact resolution ----
\* developer.output_zip_file of a manifest; "" when it is not declared.
OutputNames == {"", "custom.spk.zip"}

\* A path: <<directory, file name>>, the directory being the package
\* directory or the working directory of the process.
PossibleZipPaths(out) ==
    LET outputZipFile == IF out = "" THEN "package.spk.zip" ELSE out
    IN  << <<"pkg", outputZipFile>>, <<"pkg", "package.spk.zip">>,
           <<"pkg", "potato.spk.zip">>, <<"cwd", outputZipFile>>,
           <<"cwd", "package.spk.zip">>, <<"cwd", "potato.spk.zip">> >>

\* The paths existsSync can be asked about.
ZipPaths ==
    {"pkg", "cwd"} \X {"custom.spk.zip", "package.spk.zip", "potato.spk.zip"}

NoZip == <<"", "">>

\* The first of the paths that exists, NoZip for null.
FindZip(paths, existing) ==
    IF \E i \in 1..Len(paths) : paths[i] \in existing
    THEN paths[CHOOSE i \in 1..Len(paths) :
                   /\ paths[i] \in existing
                   /\ \A j \in 1..(i - 1) : paths[j] \notin existing]
    ELSE NoZip

\* The files on disk after a build are not known: for some declared name
\* and some set of existing files no possible path exists, ...
SomeBuildLeavesNoZip ==
    \E out \in OutputNames, existing \in SUBSET ZipPaths :
        FindZip(PossibleZipPaths(out), existing) = NoZip

\* ... and for some a possible path exists.
SomeBuildLeavesZip ==
    \E out \in OutputNames, existing \in SUBSET ZipPaths :
        FindZip(PossibleZipPaths(out), existing) # NoZip

\* ------------------------------------------------------------- state ----
VARIABLES
    file,          \* harvest-index.json: <<>> or <<document>>
    harvestIndex,  \* the harvest index in memory
    tagIndex,      \* Map<tag, Set<slug>>
    pc,            \* where the script is
    repo,          \* entries of REPOS begun
    nfiles,        \* potato.yaml files handled in this run
    log,           \* the outcome logged for the last file handled
    harvest,       \* <<slug, version>> of the files copied into harvest/
    tagFiles,      \* the tag index documents this run wrote, by tag
    again,         \* the pipeline is run again over the same sources
    run,           \* the number of this run
    seen,          \* with again: the files of the first run, in order
    first,         \* with again: <<file, tagFiles>> as the first run left them
    called,        \* the manifest updateHarvestIndex was called with on its own
    declared,      \* zip resolution on its own: developer.output_zip_file or ""
    disk,          \* zip resolution on its own: the paths that exist
    zipPath        \* zip resolution on its own: the path chosen, NoZip for null

vars == <<file, harvestIndex, tagIndex, pc, repo, nfiles, log, harvest,
          tagFiles, again, run, seen, first, called, declared, disk, zipPath>>

\* The variables of the zip resolution on its own, not used by a run.
NoZipResolution ==
    /\ declared = ""
    /\ disk = {}
    /\ zipPath = NoZip

\* The state of a process started on the file f: lines 9 to 47.
Started(f) ==
    /\ harvestIndex = LoadHarvestIndex(f)
    /\ tagIndex = TagIndexFromPotatoes(EmptyMap, LoadHarvestIndex(f).potatoes)
    /\ pc = "repos"
    /\ repo = 0
    /\ nfiles = 0
    /\ log = "none"
    /\ harvest = {}
    /\ tagFiles = EmptyMap

Init ==
    /\ file \in LoadedFiles
    /\ Started(file)
    /\ again = FALSE
    /\ run = 1
    /\ seen = <<>>
    /\ first = <<>>
    /\ called = NoManifest
    /\ NoZipResolution

\* --------------------------------------------------- the files of a run ----
\* The manifests drawn from when the pipeline is run again: slug and texts
\* there, with tags; one of them without a version.
RerunManifests ==
    {m \in Manifests :
        /\ m.slug # "" /\ m.name # "" /\ m.tags # Undefined
        /\ m.slug = "notes" => m.version = "1.0.0" /\ m.tags = <<"math">>
        /\ m.version = "" => m.tags = <<"math">>}

\* The build, the zip search and the copy of a file all went through.
Clean(outcome) ==
    outcome \notin {"build failed", "zip not found", "copy error"}

\* The next potato.yaml parses to m: any manifest in the first run, the
\* manifest found at this place by the first run in a later one.
NextFileIs(m) ==
    /\ pc = "files"
    /\ IF run = 1
       THEN /\ nfiles < MaxManifests
            /\ again => m \in RerunManifests
       ELSE /\ nfiles < Len(seen)
            /\ seen[nfiles + 1].parsed
            /\ seen[nfiles + 1].m = m

\* The next potato.yaml does not parse.
NextFileIsBroken ==
    /\ pc = "files"
    /\ IF run = 1
       THEN nfiles < MaxManifests
       ELSE /\ nfiles < Len(seen)
            /\ ~seen[nfiles + 1].parsed

\* The end of the loop body for the file that parsed to m (or did not
\* parse), with the outcome logged.
Handled(m, parsed, outcome) ==
    /\ nfiles' = nfiles + 1
    /\ log' = outcome
    /\ seen' = IF again /\ run = 1
               THEN Append(seen, [m |-> m, parsed |-> parsed,
                                  clean |-> Clean(outcome)])
               ELSE seen
    /\ UNCHANGED <<file, pc, repo, tagFiles, again, run, first, called,
                   declared, disk, zipPath>>

\* ----------------------------------------------------------- actions ----
\* git clone or git pull of the next repo succeeds; its files are listed.
SyncRepo ==
    /\ pc = "repos"
    /\ repo < MaxRepos
    /\ repo' = repo + 1
    /\ pc' = "files"
    /\ UNCHANGED <<file, harvestIndex, tagIndex, nfiles, log, harvest,
                   tagFiles, again, run, seen, first, called,
                   declared, disk, zipPath>>

\* git clone or git pull fails: the rejection is not caught, the process
\* ends without saving.
SyncFails ==
    /\ pc = "repos"
    /\ repo < MaxRepos
    /\ repo' = repo + 1
    /\ pc' = "aborted"
    /\ UNCHANGED <<file, harvestIndex, tagIndex, nfiles, log, harvest,
                   tagFiles, again, run, seen, first, called,
                   declared, disk, zipPath>>

\* The files of this repo are exhausted.
FilesDone ==
    /\ pc = "files"
    /\ run > 1 => nfiles = Len(seen)
    /\ pc' = "repos"
    /\ UNCHANGED <<file, harvestIndex, tagIndex, repo, nfiles, log, harvest,
                   tagFiles, again, run, seen, first, called,
                   declared, disk, zipPath>>

\* parseYamlFile throws (or yields null): caught, on to the next file.
ParseFails ==
    /\ NextFileIsBroken
    /\ Handled(NoManifest, FALSE, "error")
    /\ UNCHANGED <<harvestIndex, tagIndex, harvest>>

\* if (!slug || !version) continue
SkipInvalid(m) ==
    /\ NextFileIs(m)
    /\ m.slug = "" \/ m.version = ""
    /\ Handled(m, TRUE, "missing slug or version")
    /\ UNCHANGED <<harvestIndex, tagIndex, harvest>>

\* The dedup check of the loop body on the manifest m.
AlreadyHarvested(hi, m) ==
    VersionExists(hi, FindPotatoEntry(hi, m.slug), m.version)

\* The manifest m gets as far as the build.
Builds(m) ==
    /\ NextFileIs(m)
    /\ m.slug # "" /\ m.version # ""
    /\ ~AlreadyHarvested(harvestIndex, m)

\* if (versionExists(existingPotato, version)) continue
SkipExisting(m) ==
    /\ NextFileIs(m)
    /\ m.slug # "" /\ m.version # ""
    /\ AlreadyHarvested(harvestIndex, m)
    /\ Handled(m, TRUE, "already exists")
    /\ UNCHANGED <<harvestIndex, tagIndex, harvest>>

\* The mutant of BuildFails in which the harvest index and the tag map are
\* updated before the exit code is looked at.
BuildFailsAfterUpdate(m) ==
    /\ Builds(m)
    /\ harvestIndex' = UpdateHarvestIndex(harvestIndex, m.slug, m.version, m)
    /\ tagIndex' = TagIndexAddAll(tagIndex, OrEmptyArray(m.tags), m.slug)
    /\ Handled(m, TRUE, "build failed")
    /\ UNCHANGED harvest

\* The build ends with a non-zero exit code (or the shell call throws).
BuildFails(m) ==
    /\ Builds(m)
    /\ Handled(m, TRUE, "build failed")
    /\ UNCHANGED <<harvestIndex, tagIndex, harvest>>

\* The build succeeds and none of the possible zip paths exists.
ZipNotFound(m) ==
    /\ Builds(m)
    /\ SomeBuildLeavesNoZip
    /\ Handled(m, TRUE, "zip not found")
    /\ UNCHANGED <<harvestIndex, tagIndex, harvest>>

\* The mutant of CopyFails in which the exception is not caught: the
\* process ends in the middle of the loop.
CopyFailsUncaught(m) ==
    /\ Builds(m)
    /\ SomeBuildLeavesZip
    /\ nfiles' = nfiles + 1
    /\ log' = "copy error"
    /\ pc' = "aborted"
    /\ UNCHANGED <<file, harvestIndex, tagIndex, repo, harvest, tagFiles, again,
                   run, seen, first, called,
                   declared, disk, zipPath>>

\* The mutant of CopyFails in which updateHarvestIndex is called before the
\* copy: the version is recorded, the copy throws.
CopyFailsAfterUpdate(m) ==
    /\ Builds(m)
    /\ SomeBuildLeavesZip
    /\ harvestIndex' = UpdateHarvestIndex(harvestIndex, m.slug, m.version, m)
    /\ Handled(m, TRUE, "copy error")
    /\ UNCHANGED <<tagIndex, harvest>>

\* The build succeeds, a zip is found, mkdirSync or copyFileSync throws.
CopyFails(m) ==
    /\ Builds(m)
    /\ SomeBuildLeavesZip
    /\ Handled(m, TRUE, "copy error")
    /\ UNCHANGED <<harvestIndex, tagIndex, harvest>>

\* The mutant of Harvest that saves the harvest index after each update.
HarvestAndSave(m) ==
    /\ Builds(m)
    /\ SomeBuildLeavesZip
    /\ harvest' = harvest \cup {<<m.slug, m.version>>}
    /\ harvestIndex' = UpdateHarvestIndex(harvestIndex, m.slug, m.version, m)
    /\ tagIndex' = TagIndexAddAll(tagIndex, OrEmptyArray(m.tags), m.slug)
    /\ file' = <<harvestIndex'>>
    /\ nfiles' = nfiles + 1
    /\ log' = "updated"
    /\ UNCHANGED <<pc, repo, tagFiles, again, run, seen, first, called,
                   declared, disk, zipPath>>

\* The build succeeds, a zip is found and copied: the harvest index and
\* the tag map are updated.
Harvest(m) ==
    /\ Builds(m)
    /\ SomeBuildLeavesZip
    /\ harvest' = harvest \cup {<<m.slug, m.version>>}
    /\ harvestIndex' = UpdateHarvestIndex(harvestIndex, m.slug, m.version, m)
    /\ tagIndex' = TagIndexAddAll(tagIndex, OrEmptyArray(m.tags), m.slug)
    /\ Handled(m, TRUE, "updated")

\* indexed_tags of the harvest index after all repos: the sorted keys.
WithIndexedTags(hi, ti) == [hi EXCEPT !.indexed_tags = SortTags(DOMAIN ti)]

\* REPOS is exhausted: indexed_tags is set and the harvest index is saved.
Save ==
    /\ pc = "repos"
    /\ run > 1 => nfiles = Len(seen)
    /\ harvestIndex' = WithIndexedTags(harvestIndex, tagIndex)
    /\ file' = <<harvestIndex'>>
    /\ pc' = "saved"
    /\ UNCHANGED <<tagIndex, repo, nfiles, log, harvest, tagFiles, again, run,
                   seen, first, called,
                   declared, disk, zipPath>>

\* slugToPotato.get(slug): the index of the last potato set under this
\* slug, 0 for undefined.
SlugToPotato(hi, slug) ==
    IF \E i \in 1..Len(hi.potatoes) : hi.potatoes[i].slug = slug
    THEN CHOOSE i \in 1..Len(hi.potatoes) :
             /\ hi.potatoes[i].slug = slug
             /\ \A j \in (i + 1)..Len(hi.potatoes) : hi.potatoes[j].slug # slug
    ELSE 0

\* The potatoes of a tag document: the slugs of the tag, each mapped to its
\* potato, undefined ones filtered out.
RECURSIVE TaggedPotatoes(_, _)
TaggedPotatoes(hi, slugSet) ==
    IF slugSet = <<>> THEN <<>>
    ELSE LET i == SlugToPotato(hi, Head(slugSet))
             rest == TaggedPotatoes(hi, Tail(slugSet))
         IN  IF i = 0 THEN rest ELSE <<hi.potatoes[i]>> \o rest

\* The document written for a tag.
TagIndexData(hi, ti, tag) ==
    LET taggedPotatoes == TaggedPotatoes(hi, ti[tag])
    IN  [tag |-> tag, count |-> Len(taggedPotatoes),
         potatoes |-> taggedPotatoes]

\* generateTagIndexes(): one document per key of the tag map.
GenerateTagIndexes ==
    /\ pc = "saved"
    /\ tagFiles' = [t \in DOMAIN tagIndex |->
                       TagIndexData(harvestIndex, tagIndex, t)]
    /\ pc' = "done"
    /\ UNCHANGED <<file, harvestIndex, tagIndex, repo, nfiles, log, harvest,
                   again, run, seen, first, called,
                   declared, disk, zipPath>>

Next ==
    \/ SyncRepo
    \/ SyncFails
    \/ FilesDone
    \/ ParseFails
    \/ \E m \in Manifests : SkipInvalid(m)
    \/ \E m \in Manifests : SkipExisting(m)
    \/ \E m \in Manifests : BuildFails(m)
    \/ \E m \in Manifests : ZipNotFound(m)
    \/ \E m \in Manifests : CopyFails(m)
    \/ \E m \in Manifests : Harvest(m)
    \/ Save
    \/ GenerateTagIndexes

Spec == Init /\ [][Next]_vars

\* The script is sequential and awaits each step: while a step can be
\* taken, one is taken.
SpecFair == Spec /\ WF_vars(Next)

\* ------------------------------------------------- a crash in the save ----
\* The number of pieces JSON.stringify(harvestIndex) is written in: the
\* head with indexed_tags, one piece per potato, the closing bracket.
Pieces(hi) == Len(hi.potatoes) + 2

\* harvest-index.json when the process ended inside writeFileSync, which
\* truncates the file and then writes: the first n pieces of the document,
\* not all of them.
TornFiles(hi) == {<<hi, n>> : n \in 0..(Pieces(hi) - 1)}

\* A file that holds no document or a whole one.
IsWhole(f) == Len(f) <= 1

\* The process is killed while writeFileSync(HARVEST_INDEX_PATH, ...) runs.
SaveCrashes ==
    /\ pc = "repos"
    /\ run > 1 => nfiles = Len(seen)
    /\ harvestIndex' = WithIndexedTags(harvestIndex, tagIndex)
    /\ file' \in TornFiles(harvestIndex')
    /\ pc' = "crashed"
    /\ UNCHANGED <<tagIndex, repo, nfiles, log, harvest, tagFiles, again, run,
                   seen, first, called,
                   declared, disk, zipPath>>

NextCrash ==
    \/ Next
    \/ SaveCrashes

SpecCrash == Init /\ [][NextCrash]_vars

\* ------------------------------------- the paths of the tag documents ----
\* A string that becomes part of a path is a sequence of pieces: "/" is the
\* separator, ".." and "." are the dot names, "{tag}" is the placeholder,
\* any other piece is text without separator.  A path segment is a run of
\* pieces between separators, so ".." followed by ".json" is the ordinary
\* name "...json".
DefaultTagTemplate == <<"/", "tags", "/", "{tag}", ".json">>

\* Values of harvestIndex.indexed_tag_template; <<>> is missing or "".
TagTemplates ==
    {<<>>, DefaultTagTemplate,
     <<"tags", "/", "{tag}", ".json">>,
     <<"/", "{tag}">>,
     <<"/", "tags", "/", "{tag}", "/", "index", ".json">>,
     <<"/", "tags", "/", "all", ".json">>,
     <<"/", "{tag}", "/", "{tag}", ".json">>}

\* Tag names a manifest or a stored entry can carry.
TagNames ==
    {<<>>, <<"math">>, <<"..">>, <<".">>,
     <<"..", "/", "math">>,
     <<"..", "/", "..", "/", "etc">>,
     <<"a", "/", "b">>,
     <<"/", "etc">>}

\* String.prototype.replace("{tag}", tag): the first placeholder only.
RECURSIVE ReplaceTag(_, _)
ReplaceTag(template, tag) ==
    IF template = <<>> THEN <<>>
    ELSE IF Head(template) = "{tag}" THEN tag \o Tail(template)
    ELSE <<Head(template)>> \o ReplaceTag(Tail(template), tag)

\* tagFilePath.startsWith("/") ? tagFilePath.slice(1) : tagFilePath
StripSlash(path) ==
    IF path # <<>> /\ Head(path) = "/" THEN Tail(path) ELSE path

\* The segments of a path string, empty ones included.
RECURSIVE Segments(_, _)
Segments(path, seg) ==
    IF path = <<>> THEN <<seg>>
    ELSE IF Head(path) = "/" THEN <<seg>> \o Segments(Tail(path), <<>>)
    ELSE Segments(Tail(path), Append(seg, Head(path)))

\* path.normalize on the segments of an absolute path: empty and "."
\* segments go, ".." takes the segment before it (none at the root).
RECURSIVE Normalize(_, _)
Normalize(segs, done) ==
    IF segs = <<>> THEN done
    ELSE LET seg == Head(segs)
         IN  IF seg = <<>> \/ seg = <<".">>
             THEN Normalize(Tail(segs), done)
             ELSE IF seg = <<"..">>
             THEN Normalize(Tail(segs),
                            IF done = <<>> THEN <<>>
                            ELSE SubSeq(done, 1, Len(done) - 1))
             ELSE Normalize(Tail(segs), Append(done, seg))

\* import.meta.dir, the directory of the store, as segments.
StoreDir == << <<"srv">>, <<"store">> >>

\* path.join(import.meta.dir, path)
JoinStoreDir(path) == Normalize(StoreDir \o Segments(path, <<>>), <<>>)

\* resolvedPath of a tag under a template.
ResolvedPath(template, tag) ==
    LET tagTemplate == IF template = <<>> THEN DefaultTagTemplate ELSE template
    IN  JoinStoreDir(StripSlash(ReplaceTag(tagTemplate, tag)))

\* A harvest index as the path resolution reads it: the template is there.
PathIndexes ==
    {[indexed_tags |-> <<>>, indexed_tag_template |-> tt,
      potatoes |-> <<Potato("calc", <<"1.0.0">>, "1.0.0", <<>>, OldTexts)>>] :
        tt \in TagTemplates}

\* The tag maps it is tried on: one or two tags, each with calc.
PathTagMaps ==
    {[t \in S |-> <<"calc">>] :
        S \in {S \in SUBSET TagNames : Cardinality(S) \in {1, 2}}}

InitPath ==
    /\ harvestIndex \in PathIndexes
    /\ tagIndex \in PathTagMaps
    /\ file = <<harvestIndex>>
    /\ pc = "saved"
    /\ repo = 0
    /\ nfiles = 0
    /\ log = "none"
    /\ harvest = {}
    /\ tagFiles = EmptyMap
    /\ again = FALSE
    /\ run = 1
    /\ seen = <<>>
    /\ first = <<>>
    /\ called = NoManifest
    /\ NoZipResolution

\* generateTagIndexes() with the files it writes named by their resolved
\* paths; two tags with one path write one file, whose documents are both
\* kept here.
GenerateTagIndexesAt ==
    /\ pc = "saved"
    /\ tagFiles' =
           [p \in {ResolvedPath(harvestIndex.indexed_tag_template, t) :
                      t \in DOMAIN tagIndex} |->
               LET ts == {t \in DOMAIN tagIndex :
                             ResolvedPath(harvestIndex.indexed_tag_template, t)
                                 = p}
               IN  {TagIndexData(harvestIndex, tagIndex, t) : t \in ts}]
    /\ pc' = "done"
    /\ UNCHANGED <<file, harvestIndex, tagIndex, repo, nfiles, log, harvest,
                   again, run, seen, first, called,
                   declared, disk, zipPath>>

NextPath == GenerateTagIndexesAt

SpecPath == InitPath /\ [][NextPath]_vars

\* ------------------------------------------ zip resolution on its own ----
InitZip ==
    /\ file = <<>>
    /\ harvestIndex = DefaultHarvestIndex
    /\ tagIndex = EmptyMap
    /\ pc = "built"
    /\ repo = 0
    /\ nfiles = 0
    /\ log = "none"
    /\ harvest = {}
    /\ tagFiles = EmptyMap
    /\ again = FALSE
    /\ run = 1
    /\ seen = <<>>
    /\ first = <<>>
    /\ called = Manifest("calc", "1.0.0", Undefined, NoTexts)
    /\ declared \in OutputNames
    /\ disk \in SUBSET ZipPaths
    /\ zipPath = NoZip

\* Lines 187 to 209 after a build that left the files of disk: the first
\* possible path that exists is taken; with none the file is skipped.
ResolveZip ==
    /\ pc = "built"
    /\ zipPath' = FindZip(PossibleZipPaths(declared), disk)
    /\ pc' = IF zipPath' = NoZip THEN "skipped" ELSE "found"
    /\ log' = IF zipPath' = NoZip THEN "zip not found" ELSE log
    /\ UNCHANGED <<file, harvestIndex, tagIndex, repo, nfiles, harvest,
                   tagFiles, again, run, seen, first, called, declared, disk>>

NextZip == ResolveZip

SpecZip == InitZip /\ [][NextZip]_vars

\* ------------------------------------------------ the pipeline run again ----
\* The files harvest-index.json can hold before the first of several runs.
RerunFiles ==
    {<<>>,
     <<[indexed_tags |-> <<"math">>,
        potatoes |-> <<Potato("calc", <<"1.0.0">>, "1.0.0", <<"math">>,
                              OldTexts)>>]>>}

InitRerun ==
    /\ file \in RerunFiles
    /\ Started(file)
    /\ again = TRUE
    /\ run = 1
    /\ seen = <<>>
    /\ first = <<>>
    /\ called = NoManifest
    /\ NoZipResolution

\* The script has ended and is started again, on the files it wrote and the
\* same repos: lines 9 to 47 once more.
Restart ==
    /\ pc = "done"
    /\ again
    /\ run < MaxRuns
    /\ run' = run + 1
    /\ first' = IF run = 1 THEN <<file, tagFiles>> ELSE first
    /\ harvestIndex' = LoadHarvestIndex(file)
    /\ tagIndex' =
           TagIndexFromPotatoes(EmptyMap, LoadHarvestIndex(file).potatoes)
    /\ pc' = "repos"
    /\ repo' = 0
    /\ nfiles' = 0
    /\ log' = "none"
    /\ harvest' = {}
    /\ tagFiles' = EmptyMap
    /\ UNCHANGED <<file, again, seen, called,
                   declared, disk, zipPath>>

NextRerun ==
    \/ Next
    \/ Restart

SpecRerun == InitRerun /\ [][NextRerun]_vars

\* --------------------------------------- updateHarvestIndex on its own ----
\* The texts an entry it is tried on holds: none, all, one, all but one.
StoredTextSets ==
    {{}, StringFields}
    \cup {{f} : f \in StringFields}
    \cup {StringFields \ {f} : f \in StringFields}

\* The entries updateHarvestIndex is tried on: tags and versions there,
\* empty or missing.
UpsertPotatoes(s) ==
    {Potato(s, vs, "1.0.0", t, TextsOnly(OldTexts, S)) :
        vs \in {Undefined, <<"1.0.0">>}, t \in {Undefined, <<>>, <<"math">>},
        S \in StoredTextSets}

\* The manifests it is tried with: each text there or not.
UpsertManifests ==
    {Manifest(s, v, t, TextsOnly(NewTexts, S)) :
        s \in Slugs, v \in Versions, t \in {Undefined, <<>>, <<"official">>},
        S \in SUBSET StringFields}

\* The harvest indexes it is tried on: the entry of calc alone, or after an
\* entry of notes.
UpsertIndexes ==
    {[indexed_tags |-> <<"official">>, potatoes |-> <<p>>] :
        p \in UpsertPotatoes("calc")}
    \cup {[indexed_tags |-> <<"official">>,
           potatoes |-> <<Potato("notes", <<"2.0.0">>, "2.0.0", <<>>, OldTexts),
                          p>>] :
             p \in {x \in UpsertPotatoes("calc") : x.versions # Undefined}}

InitUpsert ==
    /\ file = <<>>
    /\ harvestIndex \in UpsertIndexes
    /\ tagIndex = TagIndexFromPotatoes(EmptyMap, harvestIndex.potatoes)
    /\ pc = "update"
    /\ repo = 0
    /\ nfiles = 0
    /\ log = "none"
    /\ harvest = {}
    /\ tagFiles = EmptyMap
    /\ again = FALSE
    /\ run = 1
    /\ seen = <<>>
    /\ first = <<>>
    /\ called = NoManifest
    /\ NoZipResolution

\* One call updateHarvestIndex(m.slug, m.version, m).
Update(m) ==
    /\ pc = "update"
    /\ harvestIndex' = UpdateHarvestIndex(harvestIndex, m.slug, m.version, m)
    /\ called' = m
    /\ pc' = "updated"
    /\ UNCHANGED <<file, tagIndex, repo, nfiles, log, harvest, tagFiles, again,
                   run, seen, first,
                   declared, disk, zipPath>>

\* The same call once more: updateHarvestIndex(m.slug, m.version, m) with
\* the m of the first call.
UpdateAgain ==
    /\ pc = "updated"
    /\ harvestIndex' =
           UpdateHarvestIndex(harvestIndex, called.slug, called.version, called)
    /\ pc' = "updated again"
    /\ UNCHANGED <<file, tagIndex, repo, nfiles, log, harvest, tagFiles, again,
                   run, seen, first, called,
                   declared, disk, zipPath>>

NextUpsert ==
    \/ \E m \in UpsertManifests : Update(m)
    \/ UpdateAgain

SpecUpsert == InitUpsert /\ [][NextUpsert]_vars

\* ------------------------------------------------------------ claims ----
Potatoes == harvestIndex.potatoes

\* The tags an entry carries.
TagsOf(potato) == Range(OrEmptyArray(potato.tags))

\* The versions an entry records, as an array.
VersionsOf(potato) == OrEmptyArray(potato.versions)

IsPrefix(a, b) == Len(a) <= Len(b) /\ SubSeq(b, 1, Len(a)) = a

NoRepeat(arr) ==
    \A i, j \in 1..Len(arr) : i # j => arr[i] # arr[j]

\* C2, as claimed: at the end of a run indexed_tags is the sorted union of
\* the tags of all entries of the registry.
C2_IndexedTagsAreEntryTags ==
    pc \in {"saved", "done"} =>
        harvestIndex.indexed_tags =
            SortTags(UNION {TagsOf(Potatoes[i]) : i \in 1..Len(Potatoes)})

\* C3, as claimed: every entry listed in a tag index document carries the
\* tag of the document in its own tags.
C3_ListedEntriesCarryTag ==
    pc = "done" =>
        \A t \in DOMAIN tagFiles :
            \A i \in 1..Len(tagFiles[t].potatoes) :
                t \in TagsOf(tagFiles[t].potatoes[i])

\* C4: in every state of a run no entry's versions holds a version twice.
C4_NoRepeatedVersion ==
    \A i \in 1..Len(Potatoes) : NoRepeat(VersionsOf(Potatoes[i]))

\* C4's case: a version was pushed onto an entry in this run, and a file
\* repeating a recorded slug and version was handled after that.
C4_Witness ==
    /\ log = "already exists"
    /\ harvest # {}
    /\ \E i \in 1..Len(Potatoes) : Len(VersionsOf(Potatoes[i])) = 2

\* C5: in every state of a run each entry's current_version is one of its
\* versions.
C5_CurrentVersionInVersions ==
    \A i \in 1..Len(Potatoes) :
        Potatoes[i].current_version \in Range(VersionsOf(Potatoes[i]))

\* C5's case: an existing entry was updated with a new version.
C5_Witness ==
    /\ log = "updated"
    /\ \E i \in 1..Len(Potatoes) :
           /\ Len(VersionsOf(Potatoes[i])) = 2
           /\ <<Potatoes[i].slug, Potatoes[i].current_version>> \in harvest
           /\ Potatoes[i].current_version = Potatoes[i].versions[2]

\* C6: no step removes or moves an entry, changes a slug, or removes or
\* reorders a recorded version.
C6_AppendOnly ==
    [][/\ Len(Potatoes') >= Len(Potatoes)
       /\ \A i \in 1..Len(Potatoes) :
              /\ Potatoes'[i].slug = Potatoes[i].slug
              /\ IsPrefix(VersionsOf(Potatoes[i]), VersionsOf(Potatoes'[i]))
      ]_vars

\* C6's case: the run pushed a version onto a loaded entry and appended an
\* entry after it.
C6_Witness ==
    /\ file # <<>>
    /\ Len(Potatoes) = Len(file[1].potatoes) + 1
    /\ \E i \in 1..Len(file[1].potatoes) :
           Len(VersionsOf(Potatoes[i])) = Len(file[1].potatoes[i].versions) + 1

\* C7: the registry never holds two entries with one slug, and holds an
\* entry for every slug upserted in this run.
C7_OneEntryPerSlug ==
    /\ \A i, j \in 1..Len(Potatoes) :
           Potatoes[i].slug = Potatoes[j].slug => i = j
    /\ \A a \in harvest :
           Cardinality({i \in 1..Len(Potatoes) : Potatoes[i].slug = a[1]}) = 1

\* C7's case: two manifests of one slug were upserted in this run.
C7_Witness ==
    \E s \in Slugs : {<<s, "1.0.0">>, <<s, "2.0.0">>} \subseteq harvest

\* The step handles a file that parses to m and logs what it logs: each
\* way through the loop body logs an outcome of its own.
HandlesAsLogged(m) ==
    CASE log' = "missing slug or version" -> SkipInvalid(m)
      [] log' = "already exists" -> SkipExisting(m)
      [] log' = "build failed" -> BuildFails(m)
      [] log' = "zip not found" -> ZipNotFound(m)
      [] log' = "copy error" -> CopyFails(m)
      [] log' = "updated" -> Harvest(m)
      [] OTHER -> FALSE

\* C8: a file whose slug and version are recorded is skipped: a step that
\* handles it logs "already exists" (the build is not started, nothing is
\* copied) and leaves the registry and the tag map as they are.
C8_RecordedIsSkipped ==
    [][\/ pc # "files"
       \/ /\ log' = "already exists"
          /\ UNCHANGED <<harvestIndex, tagIndex, harvest, file>>
       \/ \A i \in 1..Len(Potatoes) :
              \A v \in Range(VersionsOf(Potatoes[i])) :
                  \A m \in ManifestsOf(Potatoes[i].slug, v) :
                      ~HandlesAsLogged(m)
      ]_vars

\* C8's case: a version recorded earlier in the same run, on an empty
\* registry, was met again.
C8_Witness ==
    /\ file = <<>>
    /\ pc = "files"
    /\ log = "already exists"

\* A descriptive property of an entry or a manifest holds nothing.
IsEmptyText(text) == text = ""

\* C9: updateHarvestIndex leaves every descriptive property of an existing
\* entry that holds something (a text, at least one tag) as it is.
C9_NeverOverwrites ==
    [][\A i \in 1..Len(Potatoes) :
           /\ \A f \in StringFields :
                  ~IsEmptyText(Potatoes[i][f]) =>
                      Potatoes'[i][f] = Potatoes[i][f]
           /\ TagsOf(Potatoes[i]) # {} => Potatoes'[i].tags = Potatoes[i].tags
      ]_vars

\* C9's case: the entry's license is MIT, it was updated from a manifest
\* of its slug whose license is GPL.
C9_Witness ==
    /\ pc = "updated"
    /\ called.license = "GPL"
    /\ \E i \in 1..Len(Potatoes) :
           /\ Potatoes[i].slug = called.slug
           /\ Potatoes[i].license = "MIT"
           /\ Potatoes[i].current_version = "2.0.0"

\* C10, as claimed: updateHarvestIndex fills every descriptive property of
\* an existing entry that holds nothing (no text, no tag) from a manifest
\* that holds something there.
C10_FillsEveryEmptyField ==
    [][pc' = "updated" =>
           \A i \in 1..Len(Potatoes) :
               Potatoes[i].slug = called'.slug =>
                   /\ \A f \in StringFields :
                          (IsEmptyText(Potatoes[i][f])
                              /\ ~IsEmptyText(called'[f])) =>
                                  Potatoes'[i][f] = called'[f]
                   /\ (TagsOf(Potatoes[i]) = {} /\ TagsOf(called') # {}) =>
                          Potatoes'[i].tags = called'.tags
      ]_vars

\* No build, zip search or copy of the first run failed.
FirstRunClean ==
    \A i \in 1..Len(seen) :
        seen[i].clean

\* C1, as claimed: after a second run over the same files, the first run
\* having had no failure, the registry and the tag index documents are
\* those the first run left.
C1_SecondRunChangesNothing ==
    (run = 2 /\ pc = "done" /\ FirstRunClean) =>
        /\ file = first[1]
        /\ tagFiles = first[2]

\* C11: a second call of updateHarvestIndex with the arguments of the first
\* leaves the registry as the first call left it.
C11_UpdateIsIdempotent ==
    [][pc' = "updated again" => harvestIndex' = harvestIndex]_vars

\* C11's case: the first call pushed a version onto an existing entry and
\* filled its name, or created the entry of notes; the second call is done.
C11_Witness ==
    /\ pc = "updated again"
    /\ \E i \in 1..Len(Potatoes) :
           /\ Potatoes[i].slug = called.slug
           /\ Potatoes[i].current_version = "2.0.0"
           /\ Potatoes[i].versions = <<"1.0.0", "2.0.0">>
           /\ Potatoes[i].name = "Calculator"

\* The outcomes logged for a manifest that is rejected or skipped for a
\* missing slug or version, a failed build or a zip found nowhere.
Rejections == {"missing slug or version", "build failed", "zip not found"}

\* C12: a step that handles a file and rejects it (slug or version missing,
\* build failed, zip found nowhere) leaves the registry and the tag map as
\* they were.
C12_RejectedChangesNothing ==
    [][(nfiles' = nfiles + 1 /\ log' \in Rejections) =>
           UNCHANGED <<harvestIndex, tagIndex>>]_vars

\* C12's case: after a harvest of this run filled the registry and the tag
\* map, a manifest was rejected because its zip was found nowhere.
C12_Witness ==
    /\ pc = "files"
    /\ log = "zip not found"
    /\ harvest # {}
    /\ DOMAIN tagIndex # {}

\* C13: whatever happens to a file (parse error, slug or version missing,
\* failed build, zip found nowhere, exception in the copy), the script stays
\* in the loop over the files, the loop is left to the loop over the repos,
\* and the run ends with the save and the tag index documents, unless git
\* clone or git pull failed (the only step that sets pc to "aborted").
C13_NoFileEndsTheRun ==
    /\ [][nfiles' = nfiles + 1 => pc' = "files"]_vars
    /\ (pc = "files") ~> (pc = "repos")
    /\ <>(pc = "done" \/ pc = "aborted")

\* C13's case: on an empty registry the first file failed or was rejected,
\* the second was harvested, and the run went on to save and generate.
C13_Witness ==
    /\ pc = "done"
    /\ nfiles = 2
    /\ log = "updated"
    /\ Cardinality(harvest) = 1
    /\ Len(Potatoes) = 1
    /\ Len(VersionsOf(Potatoes[1])) = 1

\* C14, as claimed: every step, a crash in the save included, leaves in
\* harvest-index.json the whole document it held or the whole new one.
C14_SaveIsAtomic ==
    [][/\ IsWhole(file')
       /\ file' = file \/ file' = <<harvestIndex'>>]_vars

\* C15, as claimed: every path generateTagIndexes writes a tag index
\* document to lies inside the directory of the store.
C15_TagPathsInsideStore ==
    pc = "done" =>
        \A p \in DOMAIN tagFiles : IsPrefix(StoreDir, p)

\* C16, as claimed: a step that handles a manifest and harvests it or skips
\* it because its version is recorded leaves the entry of its slug with the
\* manifest's version as current_version.
C16_CurrentIsLatestManifest ==
    [][\A m \in Manifests :
           (log' \in {"updated", "already exists"} /\ HandlesAsLogged(m)) =>
               LET i == FindPotatoEntry(harvestIndex', m.slug)
               IN  /\ i # 0
                   /\ harvestIndex'.potatoes[i].current_version = m.version
      ]_vars

\* C16, amended: a step that harvests a manifest leaves the entry of its
\* slug with the manifest's version as current_version, and no other step
\* (a skip of a recorded version among them) changes any current_version:
\* current_version is the version of the manifest harvested last for the
\* slug, or the loaded one.
C16_CurrentIsLatestHarvested ==
    [][/\ (nfiles' = nfiles + 1 /\ log' = "updated") =>
              /\ harvest' # harvest
              /\ \A a \in harvest' \ harvest :
                     \E i \in 1..Len(Potatoes') :
                         /\ Potatoes'[i].slug = a[1]
                         /\ Potatoes'[i].current_version = a[2]
       /\ \A i \in 1..Len(Potatoes') :
              \/ /\ i <= Len(Potatoes)
                 /\ Potatoes'[i].current_version = Potatoes[i].current_version
              \/ /\ nfiles' = nfiles + 1
                 /\ log' = "updated"
                 /\ <<Potatoes'[i].slug, Potatoes'[i].current_version>>
                        \in harvest' \ harvest
      ]_vars

\* C16's case: 2.0.0 was harvested onto the loaded entry of calc, whose
\* versions were 1.0.0 alone; then a manifest of a recorded version was
\* skipped, and current_version is what the harvest made it.
C16_Witness ==
    /\ log = "already exists"
    /\ harvest = {<<"calc", "2.0.0">>}
    /\ \E i \in 1..Len(Potatoes) :
           /\ Potatoes[i].slug = "calc"
           /\ Potatoes[i].versions = <<"1.0.0", "2.0.0">>
           /\ Potatoes[i].current_version = "2.0.0"

\* C17: at the end of a run there is a tag index document for every tag an
\* entry of the registry carries, and the document lists that entry.
C17_TagDocumentsComplete ==
    pc = "done" =>
        \A i \in 1..Len(Potatoes) :
            \A t \in TagsOf(Potatoes[i]) :
                /\ t \in DOMAIN tagFiles
                /\ \E j \in 1..Len(tagFiles[t].potatoes) :
                       tagFiles[t].potatoes[j] = Potatoes[i]

\* C17's case: the document of math lists a loaded entry and an entry this
\* run created.
C17_Witness ==
    /\ pc = "done"
    /\ Len(Potatoes) = 2
    /\ "math" \in DOMAIN tagFiles
    /\ tagFiles["math"].count = 2
    /\ harvest = {<<Potatoes[2].slug, Potatoes[2].current_version>>}

\* C18: no step that leaves the script before the save (in a loop, or ended
\* by a failed git call) changes harvest-index.json, so a process that ends
\* there leaves the file as the run found it; the file changes only in the
\* step from the end of the repo loop to the saved state, and then holds
\* the harvest index with indexed_tags recomputed from the tag map.
C18_NoWriteBeforeSave ==
    [][/\ pc' \in {"repos", "files", "aborted"} => file' = file
       /\ file' # file =>
              /\ pc = "repos" /\ pc' = "saved"
              /\ file' = <<harvestIndex'>>
              /\ harvestIndex'.indexed_tags = SortTags(DOMAIN tagIndex)
      ]_vars

\* C18's case: the run harvested a manifest, then git failed and the
\* process ended: the file is not what the registry in memory holds.
C18_Witness ==
    /\ pc = "aborted"
    /\ harvest # {}
    /\ harvestIndex # LoadHarvestIndex(file)

\* The <<slug, version>> pairs the registry records.
Recorded(potatoes) ==
    UNION {{<<potatoes[i].slug, v>> : v \in Range(VersionsOf(potatoes[i]))} :
              i \in 1..Len(potatoes)}

\* C19: a step records a version only with its zip copied: every pair
\* recorded after a step was recorded before it or its zip is in harvest/
\* under its slug and version; and the copies of a run stay.
C19_RecordedAfterCopy ==
    [][/\ Recorded(Potatoes') \subseteq Recorded(Potatoes) \cup harvest'
       /\ harvest \subseteq harvest'
      ]_vars

\* C19's case: on an empty registry, of three files one was rejected,
\* skipped or failed, and the versions of two were copied and recorded.
C19_Witness ==
    /\ nfiles = 3
    /\ log = "updated"
    /\ Cardinality(harvest) = 2
    /\ Recorded(Potatoes) = harvest

\* The order of the candidates as claimed: the declared name in the package
\* directory, the declared name in the working directory, then the two
\* fixed names in each directory.
ClaimedZipPaths(out) ==
    LET outputZipFile == IF out = "" THEN "package.spk.zip" ELSE out
    IN  << <<"pkg", outputZipFile>>, <<"cwd", outputZipFile>>,
           <<"pkg", "package.spk.zip">>, <<"pkg", "potato.spk.zip">>,
           <<"cwd", "package.spk.zip">>, <<"cwd", "potato.spk.zip">> >>

\* C20, as claimed: the zip chosen is the first existing candidate in the
\* claimed order, and with no candidate existing the file is skipped and
\* the registry is as it was.
C20_FirstInClaimedOrder ==
    /\ pc = "found" =>
           /\ zipPath \in disk
           /\ zipPath = FindZip(ClaimedZipPaths(declared), disk)
    /\ pc = "skipped" =>
           /\ \A i \in 1..Len(ClaimedZipPaths(declared)) :
                  ClaimedZipPaths(declared)[i] \notin disk
           /\ harvestIndex = DefaultHarvestIndex

=============================================================================
